---- MODULE Spec2Model ----
(***************************************************************************)
(* Channel scope registry of the live feature                              *)
(* (public/app/features/live/channel-config/scope.ts).                     *)
(*                                                                         *)
(* A behaviour follows ONE GrafanaLiveScope instance: Init constructs one  *)
(* of the four subclasses (the field `scope` says which), and the actions  *)
(* are the methods of that instance together with the environment it       *)
(* reads: the configuration snapshot and the collaborators' answers.       *)
(* Scope instances share no state, so following them one at a time loses   *)
(* no behaviour.                                                           *)
(*                                                                         *)
(* The async methods are cut at their awaits: a listNamespaces call is a   *)
(* Start step (up to its first await) and one Resume step per awaited      *)
(* getChannelSupport, so pending calls interleave exactly where the code   *)
(* can be suspended.                                                       *)
(*                                                                         *)
(* Two further parts of the repository are modelled beside the registry,   *)
(* each under a specification of its own that holds the others' variables  *)
(* still:                                                                  *)
(*   GeoSpec    - a GeomapPanel instance                                   *)
(*                (public/app/plugins/panel/geomap/GeomapPanel.tsx):       *)
(*                initMapRef, the PanelEditExitedEvent subscriber,         *)
(*                optionsChanged, initMapView and initLayers, the latter   *)
(*                cut at its await;                                        *)
(*   FramesSpec - one call of prepareGraphableFrames (unnamed/part_000),   *)
(*                its arguments drawn in the initial state.                *)
(***************************************************************************)
EXTENDS Naturals, Sequences, FiniteSets, TLC

VARIABLES
  scope,       \* GrafanaLiveScope.scope: which subclass was constructed
  features,    \* GrafanaLiveCoreScope.features (Map name -> support)
  namespaces,  \* GrafanaLiveCoreScope.namespaces (array)
  names,       \* names?: the cached list of the datasource/plugin/stream scope
  config,      \* Object.entries(config.datasources) / Object.entries(config.panels)
  collab,      \* what getDataSourceSrv().get / loadPlugin answers for a namespace
  calls,       \* the listNamespaces calls that took the scan path, each with its locals
  ret,         \* what the operation of the last step returned (NoRet: nothing)
  registered,  \* history: the features passed to register, in call order
  writes,      \* history: how many times `this.names = names` has executed
  returned,    \* history: the lists that listNamespaces calls have returned
  edits,       \* history: how many times the environment was changed
  map,         \* GeomapPanel.map: the ol Map and the layers added to it
  layers,      \* GeomapPanel.layers: the MapLayerState array
  inits,       \* the initLayers invocations suspended at `await item.create`
  sharedView,  \* module-level `sharedView` of GeomapPanel.tsx
  options,     \* GeomapPanel props.options
  panel,       \* history: initMapRef calls, events, option changes, layer objects
  series,      \* prepareGraphableFrames: the `series` argument (mutated in place)
  stacking,    \* prepareGraphableFrames: the `stacking` argument
  result       \* prepareGraphableFrames: what the call returned

\* the state of the channel scope registry
registryVars == <<scope, features, namespaces, names, config, collab, calls,
                  ret, registered, writes, returned, edits>>

\* the state of a GeomapPanel instance
panelVars == <<map, layers, inits, sharedView, options, panel>>

\* one prepareGraphableFrames call
frameVars == <<series, stacking, result>>

vars == <<scope, features, namespaces, names, config, collab, calls, ret,
          registered, writes, returned, edits, map, layers, inits, sharedView,
          options, panel, series, stacking, result>>

----------------------------------------------------------------------------
(* Bounds of the model *)

\* register calls in one behaviour
MaxRegs == 3
\* listNamespaces calls that scan (allocate a list) in one behaviour; calls
\* served from the cache are not bounded
MaxScans == 2
\* changes of the configuration snapshot / collaborators in one behaviour
MaxEdits == 1
\* calls of GeomapPanel.initMapRef in one behaviour
MaxMounts == 2
\* PanelEditExitedEvent deliveries in one behaviour
MaxEvents == 2
\* calls of GeomapPanel.optionsChanged in one behaviour
MaxOptionChanges == 1
\* overlays in options.layers
MaxOverlays == 2
\* frames in the series handed to prepareGraphableFrames
MaxFrames == 2
\* fields in one frame
MaxFields == 2

----------------------------------------------------------------------------
(* Value universes *)

\* LiveChannelScope
Scopes == {"grafana", "ds", "plugin", "stream"}

\* namespace strings handed to getChannelSupport
Namespaces == {"alpha", "beta"}

\* keys of config.datasources / config.panels
Keys == {"alpha", "beta"}

\* description strings of core features and panels
Descriptions == {"desc-A", "desc-B"}

\* LiveChannelSupport objects owned by core features (object identities)
CoreSupports == {"supportA", "supportB"}

\* CoreGrafanaLiveFeature
CoreFeatures ==
  [name : Namespaces, description : Descriptions, support : CoreSupports]

\* JavaScript undefined, as a support value
Undefined == [class |-> "undefined", owner |-> "", isNew |-> FALSE]

\* a support object registered with the core scope
CoreSupport(s) == [class |-> "LiveChannelSupport", owner |-> s, isNew |-> FALSE]

\* ds.channelSupport / plugin.channelSupport of the instance named ns
OwnSupport(ns) == [class |-> "channelSupport", owner |-> ns, isNew |-> FALSE]

\* new LiveMeasurementsSupport(): a fresh object at every evaluation
NewLiveMeasurementsSupport ==
  [class |-> "LiveMeasurementsSupport", owner |-> "", isNew |-> TRUE]

\* no error
NoError == [thrownBy |-> "", message |-> ""]

\* new Error(message) thrown by scope.ts
ScopeError(msg) == [thrownBy |-> "scope", message |-> msg]

\* the rejection of a collaborator, propagated unchanged
CollabError(ns) == [thrownBy |-> "collaborator", message |-> ns]

\* a settled promise
Resolved(v) == [ok |-> TRUE, value |-> v, error |-> NoError]
Rejected(e) == [ok |-> FALSE, value |-> Undefined, error |-> e]

\* the list value before `names` is assigned (undefined): id 0
NoList == [id |-> 0, items |-> <<>>]

\* an array object: its identity and its contents
List(id, items) == [id |-> id, items |-> items]

\* JavaScript truthiness of `this.names`: any array, also an empty one
Truthy(l) == l.id # 0

\* identity of the core scope's `namespaces` array
CoreListId == 1

\* no listNamespaces frame
NoCall ==
  [pc |-> "none", entries |-> <<>>, i |-> 0, acc |-> <<>>, invoked |-> <<>>,
   outcomes |-> <<>>, after |-> {}, scanned |-> FALSE, threw |-> FALSE,
   res |-> NoList]

\* the value of `ret` when the last step returned nothing to a caller
NoRet ==
  [op |-> "none", ns |-> "", answer |-> "", res |-> Rejected(NoError),
   list |-> NoList, call |-> NoCall]

----------------------------------------------------------------------------
(* GrafanaLiveCoreScope *)

\* a set that keeps an existing entry (first write wins)
MapSetIfAbsent(m, k, v) ==
  [n \in DOMAIN m |-> IF n = k /\ m[n] = Undefined THEN v ELSE m[n]]

\* Map.prototype.set
MapSet(m, k, v) == [n \in DOMAIN m |-> IF n = k THEN v ELSE m[n]]

\* an entry labelled with the description instead of the name
NamespaceEntryMislabelled(f) ==
  [value |-> f.name, label |-> f.description, description |-> f.description]

\* the SelectableValue that register pushes for a feature
NamespaceEntry(f) ==
  [value |-> f.name, label |-> f.name, description |-> f.description]

\* a lookup that hands back whatever the map holds, undefined included
CoreGetChannelSupportLenient(fs, ns) == Resolved(fs[ns])

\* GrafanaLiveCoreScope.getChannelSupport, on the feature map fs
CoreGetChannelSupport(fs, ns) ==
  LET v == fs[ns]
  IN  IF v # Undefined
        THEN Resolved(v)
        ELSE Rejected(ScopeError("unknown feature: " \o ns))

\* GrafanaLiveCoreScope.register
Register(f) ==
  /\ scope = "grafana"
  /\ Len(registered) < MaxRegs
  /\ features' = MapSet(features, f.name, CoreSupport(f.support))
  /\ namespaces' = Append(namespaces, NamespaceEntry(f))
  /\ registered' = Append(registered, f)
  /\ ret' = [NoRet EXCEPT !.op = "register", !.ns = f.name]
  /\ UNCHANGED <<panelVars, frameVars, scope, names, config, collab, calls, writes, returned, edits>>

\* a call of GrafanaLiveCoreScope.getChannelSupport
CoreGet(ns) ==
  /\ scope = "grafana"
  /\ ret' = [NoRet EXCEPT !.op = "getChannelSupport", !.ns = ns,
                          !.res = CoreGetChannelSupport(features, ns)]
  /\ UNCHANGED <<panelVars, frameVars, scope, features, namespaces, names, config, collab, calls,
                 registered, writes, returned, edits>>

\* a call of GrafanaLiveCoreScope.listNamespaces
CoreListNamespaces ==
  /\ scope = "grafana"
  /\ ret' = [NoRet EXCEPT !.op = "listNamespaces",
                          !.list = List(CoreListId, namespaces)]
  /\ UNCHANGED <<panelVars, frameVars, scope, features, namespaces, names, config, collab, calls,
                 registered, writes, returned, edits>>

----------------------------------------------------------------------------
(* The environment: configuration snapshot and collaborators *)

\* ds.name of the datasource configured under key k
DsName(k) == "DS " \o k

\* ds.type of the datasource configured under key k: both share one type,
\* whose id is also the name of one of them ("beta" is the datasource named
\* after its type), so the resolver's answer for the type string is part of
\* the collaborator state
DsType(k) == "beta"

\* panel.name of the panel configured under key k
PanelName(k) == "Panel " \o k

\* the datasource definitions config.datasources can hold (live is ds.meta.live)
DsDefs ==
  {[key |-> k, name |-> DsName(k), type |-> DsType(k), description |-> "",
    live |-> l] : k \in Keys, l \in BOOLEAN}

\* the panel definitions config.panels can hold (description is info.description)
PanelDefs ==
  {[key |-> k, name |-> PanelName(k), type |-> "", description |-> "desc-A",
    live |-> l] : k \in Keys, l \in BOOLEAN}

\* Object.entries of a mapping: keys are unique, insertion order is kept
EntriesOver(defs) ==
  {s \in UNION {[1..n -> defs] : n \in 0..Cardinality(Keys)} :
     \A i, j \in DOMAIN s : i # j => s[i].key # s[j].key}

\* getDataSourceSrv().get(ns): rejects, or an instance without / with
\* channelSupport
DsAnswers == {"rejects", "plain", "support"}

\* loadPlugin(ns): rejects, resolves to undefined, or a plugin without / with
\* channelSupport
PluginAnswers == {"rejects", "undefined", "plain", "support"}

\* the configurations and collaborator states a scope can meet
ConfigsOf(sc) ==
  CASE sc = "ds" -> EntriesOver(DsDefs)
    [] sc = "plugin" -> EntriesOver(PanelDefs)
    [] OTHER -> {<<>>}

\* the answers the collaborator of a scope can give (the core and stream
\* scopes have no collaborator)
AnswersOf(sc) ==
  CASE sc = "ds" -> DsAnswers
    [] sc = "plugin" -> PluginAnswers
    [] OTHER -> {"unused"}

CollabsOf(sc) == [Namespaces -> AnswersOf(sc)]

----------------------------------------------------------------------------
(* getChannelSupport of the datasource, plugin and stream scopes, as a     *)
(* function of the collaborator's answer                                   *)

\* a datasource lookup without the default: no channelSupport is an error
DsGetChannelSupportNoDefault(ns, answer) ==
  IF answer = "rejects" THEN Rejected(CollabError(ns))
  ELSE IF answer = "support" THEN Resolved(OwnSupport(ns))
  ELSE Rejected(ScopeError("Datasource does not support streaming: " \o ns))

\* GrafanaLiveDataSourceScope.getChannelSupport
DsGetChannelSupport(ns, answer) ==
  IF answer = "rejects" THEN Rejected(CollabError(ns))
  ELSE IF answer = "support" THEN Resolved(OwnSupport(ns))
  ELSE Resolved(NewLiveMeasurementsSupport)

\* a plugin lookup that reports a plugin without channelSupport as unknown
PluginGetChannelSupportConflated(ns, answer) ==
  IF answer = "rejects" THEN Rejected(CollabError(ns))
  ELSE IF answer = "support" THEN Resolved(OwnSupport(ns))
  ELSE Rejected(ScopeError("Unknown streaming plugin: " \o ns))

\* GrafanaLivePluginScope.getChannelSupport
PluginGetChannelSupport(ns, answer) ==
  IF answer = "rejects" THEN Rejected(CollabError(ns))
  ELSE IF answer = "undefined"
    THEN Rejected(ScopeError("Unknown streaming plugin: " \o ns))
  ELSE IF answer = "support" THEN Resolved(OwnSupport(ns))
  ELSE Rejected(ScopeError("Plugin does not support streaming: " \o ns))

\* a stream lookup that validates the namespace against the known ones
StreamGetChannelSupportChecked(ns) ==
  IF ns = "alpha" THEN Resolved(NewLiveMeasurementsSupport)
  ELSE Rejected(ScopeError("unknown stream: " \o ns))

\* GrafanaLiveStreamScope.getChannelSupport
StreamGetChannelSupport(ns) == Resolved(NewLiveMeasurementsSupport)

\* this.getChannelSupport(ns) of the instance under study
GetChannelSupport(ns) ==
  CASE scope = "grafana" -> CoreGetChannelSupport(features, ns)
    [] scope = "ds" -> DsGetChannelSupport(ns, collab[ns])
    [] scope = "plugin" -> PluginGetChannelSupport(ns, collab[ns])
    [] scope = "stream" -> StreamGetChannelSupport(ns)

\* a lookup that drops the names cache when it fails
GetInvalidatingOnFailure(ns) ==
  /\ scope \in {"ds", "plugin", "stream"}
  /\ ret' = [NoRet EXCEPT !.op = "getChannelSupport", !.ns = ns,
                          !.answer = collab[ns], !.res = GetChannelSupport(ns)]
  /\ names' = IF GetChannelSupport(ns).ok THEN names ELSE NoList
  /\ UNCHANGED <<panelVars, frameVars, scope, features, namespaces, config, collab, calls,
                 registered, writes, returned, edits>>

\* a direct call of getChannelSupport on a datasource/plugin/stream scope,
\* from the call to the settling of its promise
Get(ns) ==
  /\ scope \in {"ds", "plugin", "stream"}
  /\ ret' = [NoRet EXCEPT !.op = "getChannelSupport", !.ns = ns,
                          !.answer = collab[ns], !.res = GetChannelSupport(ns)]
  /\ UNCHANGED <<panelVars, frameVars, scope, features, namespaces, names, config, collab, calls,
                 registered, writes, returned, edits>>

----------------------------------------------------------------------------
(* listNamespaces of the datasource, plugin and stream scopes *)

\* a scan that forgets the live test
AlwaysLive(e) == TRUE

\* `if (ds.meta.live)` / `if (panel.live)`
IsLive(e) == e.live

\* the for-loop up to its next await: the index of the first entry at or
\* after i that passes the live test (Len + 1 when the loop runs out)
RECURSIVE NextLive(_, _)
NextLive(entries, i) ==
  IF i > Len(entries) THEN i
  ELSE IF IsLive(entries[i]) THEN i
  ELSE NextLive(entries, i + 1)

\* a datasource entry whose value is the configuration key
DsItemKeyed(e) == [label |-> e.name, value |-> e.key, description |-> e.type]

\* the SelectableValue pushed for a datasource definition
DsItem(e) == [label |-> e.name, value |-> e.type, description |-> e.type]

\* the SelectableValue pushed for a panel definition
PluginItem(e) == [label |-> e.name, value |-> e.key, description |-> e.description]

\* the body of the try/catch once the awaited promise has settled as r:
\* push on a truthy support, swallow the error otherwise
ScanPush(acc, e, r) ==
  IF r.ok /\ r.value # Undefined
    THEN Append(acc, IF scope = "ds" THEN DsItem(e) ELSE PluginItem(e))
    ELSE acc

\* a scan without the try/catch: the rejection leaves listNamespaces
ScanRethrows(r) == FALSE

\* whether a rejection met by the scan is caught (err.isHandled = true) and
\* the loop goes on
ScanCatches(r) == TRUE

\* the calls that have returned
Done == {d \in DOMAIN calls : calls[d].pc = "done"}

\* the frame of a listNamespaces call that is just starting: its locals
\* (entries, i, acc), the getChannelSupport invocations it made and how they
\* settled, the lists earlier calls had returned before it began, and what
\* it returns
Frame(entries) ==
  [NoCall EXCEPT !.pc = "awaiting", !.entries = entries, !.after = returned]

\* what stays of a call once it has returned: its result, not its locals
Finished(me) ==
  [me EXCEPT !.entries = <<>>, !.i = 0, !.acc = <<>>, !.invoked = <<>>,
             !.outcomes = <<>>]

\* the promise of a listNamespaces call whose final frame is me settles
Returns(me) ==
  [NoRet EXCEPT !.op = "listNamespaces", !.list = me.res, !.call = me]

\* listNamespaces of the datasource / plugin scope, from the call to its
\* first await (or to its return when it never awaits)
ListNamespacesStart ==
  /\ scope \in {"ds", "plugin"}
  /\ Truthy(names) \/ Len(calls) < MaxScans
  /\ LET c == Len(calls) + 1
         j == NextLive(config, 1)
         hit == [Frame(<<>>) EXCEPT !.pc = "done", !.res = names]
         empty == [Frame(config) EXCEPT !.pc = "done", !.scanned = TRUE,
                                       !.res = List(c, <<>>)]
         first == [Frame(config) EXCEPT !.scanned = TRUE, !.i = j,
                                       !.invoked = <<config[j].key>>]
     IN  IF Truthy(names)
           THEN /\ ret' = Returns(hit)
                /\ returned' = returned \cup {hit.res}
                /\ UNCHANGED <<calls, names, writes>>
         ELSE IF j > Len(config)
           THEN /\ calls' = Append(calls, Finished(empty))
                /\ ret' = Returns(empty)
                /\ returned' = returned \cup {empty.res}
                /\ names' = empty.res
                /\ writes' = writes + 1
         ELSE /\ calls' = Append(calls, first)
              /\ ret' = NoRet
              /\ UNCHANGED <<names, writes, returned>>
  /\ UNCHANGED <<panelVars, frameVars, scope, features, namespaces, config, collab, registered, edits>>

\* a pending listNamespaces call resumes: the awaited getChannelSupport has
\* settled; the loop runs on to the next await or to `return (this.names = names)`
ListNamespacesResume(c) ==
  /\ c \in DOMAIN calls
  /\ calls[c].pc = "awaiting"
  /\ LET me == calls[c]
         e == me.entries[me.i]
         r == GetChannelSupport(e.key)
         acc == ScanPush(me.acc, e, r)
         j == NextLive(me.entries, me.i + 1)
         seen == [me EXCEPT !.acc = acc, !.outcomes = Append(@, r.ok)]
         thrown == [seen EXCEPT !.pc = "done", !.threw = TRUE]
         last == [seen EXCEPT !.pc = "done", !.res = List(c, acc)]
     IN  IF ~r.ok /\ ~ScanCatches(r)
           THEN /\ calls' = [calls EXCEPT ![c] = Finished(thrown)]
                /\ ret' = [Returns(thrown) EXCEPT !.res = Rejected(r.error)]
                /\ UNCHANGED <<names, writes, returned>>
         ELSE IF j > Len(me.entries)
           THEN /\ calls' = [calls EXCEPT ![c] = Finished(last)]
                /\ ret' = Returns(last)
                /\ returned' = returned \cup {last.res}
                /\ names' = last.res
                /\ writes' = writes + 1
         ELSE /\ calls' = [calls EXCEPT ![c] =
                             [seen EXCEPT !.i = j,
                                          !.invoked = Append(@, me.entries[j].key)]]
              /\ ret' = NoRet
              /\ UNCHANGED <<names, writes, returned>>
  /\ UNCHANGED <<panelVars, frameVars, scope, features, namespaces, config, collab, registered, edits>>

\* GrafanaLiveStreamScope.listNamespaces: no await, one step
StreamListNamespaces ==
  /\ scope = "stream"
  /\ Truthy(names) \/ Len(calls) < MaxScans
  /\ LET c == Len(calls) + 1
         hit == [Frame(<<>>) EXCEPT !.pc = "done", !.res = names]
         empty == [Frame(<<>>) EXCEPT !.pc = "done", !.scanned = TRUE,
                                     !.res = List(c, <<>>)]
     IN  IF Truthy(names)
           THEN /\ ret' = Returns(hit)
                /\ returned' = returned \cup {hit.res}
                /\ UNCHANGED <<calls, names, writes>>
           ELSE /\ calls' = Append(calls, Finished(empty))
                /\ ret' = Returns(empty)
                /\ returned' = returned \cup {empty.res}
                /\ names' = empty.res
                /\ writes' = writes + 1
  /\ UNCHANGED <<panelVars, frameVars, scope, features, namespaces, config, collab, registered, edits>>

----------------------------------------------------------------------------
(* The environment changes under the scope *)

\* the definitions the mapping this scope iterates can hold
DefsOf(sc) == IF sc = "ds" THEN DsDefs ELSE PanelDefs

\* the mappings one change of the configuration leads to: a definition is
\* added (insertion order puts it last), deleted, or its live flag is flipped
ConfigEdits(cfg) ==
  {Append(cfg, d) : d \in {d \in DefsOf(scope) :
       \A i \in DOMAIN cfg : cfg[i].key # d.key}}
  \cup {SubSeq(cfg, 1, i - 1) \o SubSeq(cfg, i + 1, Len(cfg)) : i \in DOMAIN cfg}
  \cup {[cfg EXCEPT ![i].live = ~@] : i \in DOMAIN cfg}

\* the configuration snapshot changes
SetConfig(cfg) ==
  /\ scope \in {"ds", "plugin"}
  /\ edits < MaxEdits
  /\ cfg \in ConfigEdits(config)
  /\ config' = cfg
  /\ edits' = edits + 1
  /\ ret' = NoRet
  /\ UNCHANGED <<panelVars, frameVars, scope, features, namespaces, names, collab, calls, registered,
                 writes, returned>>

\* a datasource / plugin is reconfigured: the collaborator answers anew for ns
SetCollab(ns, a) ==
  /\ scope \in {"ds", "plugin"}
  /\ edits < MaxEdits
  /\ a # collab[ns]
  /\ collab' = [collab EXCEPT ![ns] = a]
  /\ edits' = edits + 1
  /\ ret' = NoRet
  /\ UNCHANGED <<panelVars, frameVars, scope, features, namespaces, names, config, calls, registered,
                 writes, returned>>

----------------------------------------------------------------------------
(* GeomapPanel (public/app/plugins/panel/geomap/GeomapPanel.tsx): values   *)

\* a number-valued option that is not set (JavaScript undefined)
NoNumber == [defined |-> FALSE, n |-> 0]

\* a number-valued option that is set
Num(n) == [defined |-> TRUE, n |-> n]

\* JavaScript truthiness of a number-valued option: set and not 0
TruthyNum(x) == x.defined /\ x.n # 0

\* MapViewConfig.id, by what centerPointRegistry holds for it: the
\* Coordinates entry (no lat of its own), an entry with its own lat/lon, an
\* entry without lat that is not Coordinates, and an id not in the registry
CenterIds == {"coords", "preset", "special", "unknown"}

\* MapViewConfig: every combination of shared, minZoom and maxZoom for a
\* view centred on coordinates with a zoom, and for each other centre a view
\* that sets no zoom at all
ViewConfigs ==
  [shared : BOOLEAN, id : {"coords"},
   minZoom : {NoNumber, Num(0), Num(2)}, maxZoom : {NoNumber, Num(5)},
   zoom : {Num(3)}]
  \cup [shared : BOOLEAN, id : CenterIds \ {"coords"},
        minZoom : {NoNumber}, maxZoom : {NoNumber}, zoom : {NoNumber}]

\* no View object (`sharedView` undefined, no map to hold one)
NoView ==
  [made |-> FALSE, center |-> "", zoom |-> NoNumber, minZoom |-> NoNumber,
   maxZoom |-> NoNumber]

\* new View({center: [0, 0], zoom: 1, showFullExtent: true}): the zoom limits
\* are the library's defaults until set
NewView ==
  [made |-> TRUE, center |-> "origin", zoom |-> Num(1), minZoom |-> NoNumber,
   maxZoom |-> NoNumber]

\* View.setCenter / setMaxZoom / setZoom
SetCenter(view, c) == [view EXCEPT !.center = c]
SetMaxZoom(view, z) == [view EXCEPT !.maxZoom = z]
SetZoom(view, z) == [view EXCEPT !.zoom = z]

\* the `coord` computed from centerPointRegistry.getIfExists(config.id):
\* "" when none is computed
CenterCoord(id) ==
  CASE id = "coords" -> "config lon/lat"
    [] id = "preset" -> "preset lon/lat"
    [] OTHER -> ""

\* GeomapPanel.initMapView: the view it returns, given the config and the
\* current `sharedView`
InitMapView(cfg, shared) ==
  LET v0 == IF cfg.shared /\ shared.made THEN shared ELSE NewView
      v1 == IF CenterCoord(cfg.id) # "" THEN SetCenter(v0, CenterCoord(cfg.id))
            ELSE v0
      v2 == IF TruthyNum(cfg.maxZoom) THEN SetMaxZoom(v1, cfg.maxZoom) ELSE v1
      v3 == IF TruthyNum(cfg.minZoom) THEN SetMaxZoom(v2, cfg.minZoom) ELSE v2
  IN  IF TruthyNum(cfg.zoom) THEN SetZoom(v3, cfg.zoom) ELSE v3

\* `sharedView` after initMapView(cfg): a shared config makes the returned
\* view the shared instance (the one stored, or the new one now stored)
SharedViewAfter(cfg, shared) ==
  IF cfg.shared THEN InitMapView(cfg, shared) ELSE shared

\* MapLayerOptions.type: one type geomapLayerRegistry knows, one it does not
LayerTypes == {"markers", "bogus"}

\* geomapLayerRegistry.getIfExists(type) finds an item
LayerItemExists(type) == type = "markers"

\* the overlay lists options.layers can hold, each overlay by its type
OverlayLists == UNION {[1..n -> LayerTypes] : n \in 0..MaxOverlays}

\* props.options
PanelOptions == [view : ViewConfigs, layers : OverlayLists]

\* the options when no panel is under study
NoOptions ==
  [view |-> [shared |-> FALSE, id |-> "unknown", minZoom |-> NoNumber,
             maxZoom |-> NoNumber, zoom |-> NoNumber],
   layers |-> <<>>]

\* props.id of the panel under study, and the ids events can carry
PanelId == "panel-1"
PanelIds == {"panel-1", "panel-2"}

\* `this.map` undefined
NoMap == [exists |-> FALSE, view |-> NoView, layers |-> {}]

\* new Map({view, layers: [], ...})
NewMap(view) == [exists |-> TRUE, view |-> view, layers |-> {}]

\* the elements of an array
Elements(s) == {s[i] : i \in DOMAIN s}

\* the initLayers loop up to its next await: the index of the first overlay
\* at or after i whose type the registry knows (Len + 1 when the loop ends)
RECURSIVE NextKnown(_, _)
NextKnown(overlays, i) ==
  IF i > Len(overlays) THEN i
  ELSE IF LayerItemExists(overlays[i]) THEN i
  ELSE NextKnown(overlays, i + 1)

----------------------------------------------------------------------------
(* GeomapPanel: initMapRef, the PanelEditExitedEvent subscription,         *)
(* optionsChanged and initLayers, cut at `await item.create(...)`.         *)
(* item.create is taken to resolve; handler.init() allocates a new layer   *)
(* object, numbered by panel.created.                                      *)

\* the state of the panel after its constructor, for the options opts
NewPanel(opts) ==
  /\ map = NoMap
  /\ layers = <<>>
  /\ inits = <<>>
  /\ sharedView = NoView
  /\ options = opts
  /\ panel = [mounts |-> 0, events |-> 0, changes |-> 0, created |-> 0,
              disposed |-> {}]

\* an array without its c-th element
Without(s, c) == SubSeq(s, 1, c - 1) \o SubSeq(s, c + 1, Len(s))

\* initLayers from its call to its first await, or to its end when no
\* overlay type is known, on the map m that `this.map` holds at the call
\* (the `layers` it loops over are read as the overlays of props.options):
\* the layers of this.layers are removed from the map and disposed, then
\* the loop starts with an empty local `state`
InitLayersStart(m, counters) ==
  LET j == NextKnown(options.layers, 1)
  IN  /\ map' = [m EXCEPT !.layers = @ \ Elements(layers)]
      /\ panel' = [counters EXCEPT !.disposed = @ \cup Elements(layers)]
      /\ IF j > Len(options.layers)
           THEN /\ layers' = <<>>
                /\ inits' = inits
           ELSE /\ layers' = layers
                /\ inits' = Append(inits, [overlays |-> options.layers,
                                           i |-> j, state |-> <<>>])

\* initMapRef(div): the ref callback of the map's div (null on unmount)
InitMapRef(div) ==
  /\ panel.mounts < MaxMounts
  /\ LET counters == [panel EXCEPT !.mounts = @ + 1]
     IN  IF div
           THEN /\ InitLayersStart(NewMap(InitMapView(options.view, sharedView)),
                                   counters)
                /\ sharedView' = SharedViewAfter(options.view, sharedView)
           ELSE /\ map' = NoMap
                /\ panel' = counters
                /\ UNCHANGED <<layers, inits, sharedView>>
  /\ UNCHANGED <<registryVars, frameVars, options>>

\* the PanelEditExitedEvent subscriber of the constructor
PanelEditExited(payload) ==
  /\ panel.events < MaxEvents
  /\ LET counters == [panel EXCEPT !.events = @ + 1]
     IN  IF map.exists /\ PanelId = payload
           THEN InitLayersStart(map, counters)
           ELSE /\ panel' = counters
                /\ UNCHANGED <<map, layers, inits>>
  /\ UNCHANGED <<registryVars, frameVars, sharedView, options>>

\* a suspended initLayers invocation resumes: the handler is there, its
\* layer is added to `this.map` and pushed on the local `state`; the loop
\* runs on to the next await or to `this.layers = state`. Without a map,
\* `this.map!.addLayer` throws and the invocation ends there.
InitLayersResume(c) ==
  /\ c \in DOMAIN inits
  /\ LET me == inits[c]
         layer == panel.created + 1
         state == Append(me.state, layer)
         j == NextKnown(me.overlays, me.i + 1)
     IN  /\ panel' = [panel EXCEPT !.created = layer]
         /\ IF ~map.exists
              THEN /\ inits' = Without(inits, c)
                   /\ UNCHANGED <<map, layers>>
            ELSE IF j > Len(me.overlays)
              THEN /\ map' = [map EXCEPT !.layers = @ \cup {layer}]
                   /\ layers' = state
                   /\ inits' = Without(inits, c)
            ELSE /\ map' = [map EXCEPT !.layers = @ \cup {layer}]
                 /\ inits' = [inits EXCEPT ![c] = [me EXCEPT !.i = j,
                                                            !.state = state]]
                 /\ UNCHANGED layers
  /\ UNCHANGED <<registryVars, frameVars, sharedView, options>>

\* optionsChanged(opts) followed by the props update: a changed view config
\* puts a new view on the map (without a map, `this.map!.setView` throws)
OptionsChanged(view) ==
  /\ panel.changes < MaxOptionChanges
  /\ view # options.view
  /\ panel' = [panel EXCEPT !.changes = @ + 1]
  /\ options' = [options EXCEPT !.view = view]
  /\ IF map.exists
       THEN /\ map' = [map EXCEPT !.view = InitMapView(view, sharedView)]
            /\ sharedView' = SharedViewAfter(view, sharedView)
       ELSE UNCHANGED <<map, sharedView>>
  /\ UNCHANGED <<registryVars, frameVars, layers, inits>>

----------------------------------------------------------------------------
(* prepareGraphableFrames (unnamed/part_000) *)

\* FieldType: string, number, and one that is neither
FieldTypes == {"string", "number", "time"}

\* StackingMode
StackingModes == {"none", "normal", "percent"}

\* the values of a field of a type: a number field holds a finite number,
\* the non-finite ones, and null
ValuesOf(type) ==
  IF type = "number" THEN <<"finite", "NaN", "Infinity", "null">>
  ELSE <<"text">>

\* config.custom.stacking of a field that has none
NoStacking == [group |-> "", mode |-> ""]

\* a field as it comes in: no state, no stacking, no unit, no display processor
Field(type) ==
  [type |-> type, values |-> ValuesOf(type), seriesIndex |-> NoNumber,
   stacking |-> NoStacking, unit |-> "", display |-> FALSE]

\* the frames a series can hold
Frames ==
  [name : {"A"},
   fields : UNION {[1..n -> {Field(t) : t \in FieldTypes}] : n \in 0..MaxFields}]

\* the `series` argument: missing (undefined / null), or an array of frames
NoSeries == [given |-> FALSE, frames |-> <<>>]
SeriesInputs ==
  {NoSeries}
  \cup {[given |-> TRUE, frames |-> fs] :
          fs \in UNION {[1..n -> Frames] : n \in 0..MaxFrames}}

\* the return values: {warn}, {frames}, and nothing returned yet
NotCalled ==
  [called |-> FALSE, hasWarn |-> FALSE, warn |-> "", hasFrames |-> FALSE,
   frames |-> <<>>]
ReturnWarn(text) == [NotCalled EXCEPT !.called = TRUE, !.hasWarn = TRUE, !.warn = text]
ReturnFrames(fs) == [NotCalled EXCEPT !.called = TRUE, !.hasFrames = TRUE, !.frames = fs]

\* frame.fields.some((f) => f.type === type)
SomeField(frame, type) == \E i \in DOMAIN frame.fields : frame.fields[i].type = type

\* the value map of the copy: anything but a finite number or null / undefined
\* becomes null
Sanitised(v) == IF v \in {"finite", "null"} THEN v ELSE "null"

\* a counter that does not advance
SeriesIndexStuck(idx) == idx

\* `seriesIndex++`: the value of the counter after it was used
SeriesIndexAfter(idx) == idx + 1

\* the input field after `field.state.seriesIndex = seriesIndex++`: only
\* number fields are written to
Indexed(field, idx) ==
  IF field.type = "number" THEN [field EXCEPT !.seriesIndex = Num(idx)] ELSE field

\* the field pushed on `fields`: for a number field a copy with the stacking
\* config, the sanitised values and, in percent mode, the unit and a display
\* processor; for any other field a plain copy
Copy(field, idx, mode) ==
  IF field.type = "number"
    THEN [type |-> field.type,
          values |-> [i \in DOMAIN field.values |-> Sanitised(field.values[i])],
          seriesIndex |-> Num(idx),
          stacking |-> [group |-> "_", mode |-> mode],
          unit |-> IF mode = "percent" THEN "percentunit" ELSE field.unit,
          display |-> IF mode = "percent" THEN TRUE ELSE field.display]
    ELSE field

\* the inner loop over the fields of one frame, the counter being idx at its
\* start: the copies pushed, the input fields as the loop leaves them, and
\* the counter at its end
RECURSIVE FieldLoop(_, _, _)
FieldLoop(fields, idx, mode) ==
  IF fields = <<>> THEN [copies |-> <<>>, input |-> <<>>, seriesIndex |-> idx]
  ELSE LET field == Head(fields)
           rest == FieldLoop(Tail(fields),
                             IF field.type = "number" THEN SeriesIndexAfter(idx)
                             ELSE idx,
                             mode)
       IN  [copies |-> <<Copy(field, idx, mode)>> \o rest.copies,
            input |-> <<Indexed(field, idx)>> \o rest.input,
            seriesIndex |-> rest.seriesIndex]

\* the outer loop over the frames of the series
RECURSIVE FrameLoop(_, _, _)
FrameLoop(frames, idx, mode) ==
  IF frames = <<>> THEN [copies |-> <<>>, input |-> <<>>]
  ELSE LET frame == Head(frames)
           inner == FieldLoop(frame.fields, idx, mode)
           rest == FrameLoop(Tail(frames), inner.seriesIndex, mode)
       IN  [copies |-> <<[frame EXCEPT !.fields = inner.copies]>> \o rest.copies,
            input |-> <<[frame EXCEPT !.fields = inner.input]>> \o rest.input]

\* whether prepareGraphableFrames returns before its loops, and with which
\* warning ("" when it goes on)
Warning(s) ==
  IF ~s.given \/ Len(s.frames) = 0 THEN "No data in response"
  ELSE IF ~SomeField(s.frames[1], "string")
    THEN "Bar charts requires a string field"
  ELSE IF ~SomeField(s.frames[1], "number") THEN "No numeric fields found"
  ELSE ""

\* prepareGraphableFrames(series, theme, stacking): what it returns
PrepareGraphableFrames(s, mode) ==
  IF Warning(s) # "" THEN ReturnWarn(Warning(s))
  ELSE ReturnFrames(FrameLoop(s.frames, 0, mode).copies)

\* the series argument as the call leaves it
SeriesAfter(s, mode) ==
  IF Warning(s) # "" THEN s
  ELSE [s EXCEPT !.frames = FrameLoop(s.frames, 0, mode).input]

\* no call of prepareGraphableFrames is under study
NoFramesCall ==
  /\ series = NoSeries
  /\ stacking = "none"
  /\ result = NotCalled

\* one call of prepareGraphableFrames, from its arguments to its return
Prepare ==
  /\ ~result.called
  /\ result' = PrepareGraphableFrames(series, stacking)
  /\ series' = SeriesAfter(series, stacking)
  /\ UNCHANGED <<registryVars, panelVars, stacking>>

----------------------------------------------------------------------------
(* The specification *)

Init ==
  /\ scope \in Scopes
  /\ features = [n \in Namespaces |-> Undefined]
  /\ namespaces = <<>>
  /\ names = NoList
  /\ config \in ConfigsOf(scope)
  /\ collab \in CollabsOf(scope)
  /\ calls = <<>>
  /\ ret = NoRet
  /\ registered = <<>>
  /\ writes = 0
  /\ returned = {}
  /\ edits = 0
  /\ NewPanel(NoOptions)
  /\ NoFramesCall

Next ==
  \/ \E f \in CoreFeatures : Register(f)
  \/ \E ns \in Namespaces : CoreGet(ns)
  \/ CoreListNamespaces
  \/ \E ns \in Namespaces : Get(ns)
  \/ ListNamespacesStart
  \/ \E c \in 1..MaxScans : ListNamespacesResume(c)
  \/ StreamListNamespaces
  \/ \E cfg \in ConfigEdits(config) : SetConfig(cfg)
  \/ \E ns \in Namespaces, a \in AnswersOf(scope) : SetCollab(ns, a)

Spec == Init /\ [][Next]_vars

\* the registry when no scope instance is under study
NoRegistry ==
  /\ scope = "stream"
  /\ features = [n \in Namespaces |-> Undefined]
  /\ namespaces = <<>>
  /\ names = NoList
  /\ config = <<>>
  /\ collab = [n \in Namespaces |-> "unused"]
  /\ calls = <<>>
  /\ ret = NoRet
  /\ registered = <<>>
  /\ writes = 0
  /\ returned = {}
  /\ edits = 0

\* a GeomapPanel is constructed with some options
GeoInit ==
  /\ NoRegistry
  /\ NoFramesCall
  /\ \E opts \in PanelOptions : NewPanel(opts)

GeoNext ==
  \/ \E div \in BOOLEAN : InitMapRef(div)
  \/ \E payload \in PanelIds : PanelEditExited(payload)
  \/ \E c \in 1..(MaxMounts + MaxEvents) : InitLayersResume(c)
  \/ \E view \in ViewConfigs : OptionsChanged(view)

GeoSpec == GeoInit /\ [][GeoNext]_vars

\* prepareGraphableFrames is about to be called with some arguments
FramesInit ==
  /\ NoRegistry
  /\ NewPanel(NoOptions)
  /\ series \in SeriesInputs
  /\ stacking \in StackingModes
  /\ result = NotCalled

FramesNext == Prepare

FramesSpec == FramesInit /\ [][FramesNext]_vars

----------------------------------------------------------------------------
(* Core scope: claims *)

\* whether register was ever called with name n
WasRegistered(n) == \E i \in DOMAIN registered : registered[i].name = n

\* the feature of the most recent register call for name n
LastRegistered(n) ==
  LET idx == {i \in DOMAIN registered : registered[i].name = n}
      m == CHOOSE i \in idx : \A k \in idx : k <= i
  IN  registered[m]

\* a core getChannelSupport has just returned
CoreGetReturned == scope = "grafana" /\ ret.op = "getChannelSupport"

\* C1: after any sequence of register calls, getChannelSupport(n) for a name
\* registered at least once resolves to exactly the support object of the
\* most recent register call for n, and no entry is ever removed.
C1_LastWriteWins ==
  /\ \A n \in Namespaces :
       WasRegistered(n) => features[n] = CoreSupport(LastRegistered(n).support)
  /\ (CoreGetReturned /\ WasRegistered(ret.ns)) =>
       ret.res = Resolved(CoreSupport(LastRegistered(ret.ns).support))

\* a lookup returned after its name was registered twice with different supports
C1_Witness ==
  /\ CoreGetReturned
  /\ ret.res.ok
  /\ \E i, j \in DOMAIN registered :
       /\ i < j
       /\ registered[i].name = ret.ns
       /\ registered[j].name = ret.ns
       /\ registered[i].support # registered[j].support

\* C2: getChannelSupport(n) for a name that was never registered fails with
\* the error 'unknown feature: ' followed by n and yields no support object.
C2_UnknownFeatureFails ==
  (CoreGetReturned /\ ~WasRegistered(ret.ns)) =>
    /\ ~ret.res.ok
    /\ ret.res.value = Undefined
    /\ ret.res.error.message = "unknown feature: " \o ret.ns

\* a lookup of an unregistered name failed while another name is registered
C2_Witness ==
  /\ CoreGetReturned
  /\ ~WasRegistered(ret.ns)
  /\ registered # <<>>
  /\ ~ret.res.ok

\* C3: listNamespaces of the core scope returns one entry per register call,
\* in registration order, each with value = label = the feature's name and
\* description = the feature's description.
C3_ListInRegistrationOrder ==
  LET expected == [i \in DOMAIN registered |->
                     [value |-> registered[i].name,
                      label |-> registered[i].name,
                      description |-> registered[i].description]]
  IN  /\ scope = "grafana" => namespaces = expected
      /\ (scope = "grafana" /\ ret.op = "listNamespaces") =>
           ret.list.items = expected

\* listNamespaces returned a list of two different features
C3_Witness ==
  /\ scope = "grafana"
  /\ ret.op = "listNamespaces"
  /\ Len(ret.list.items) >= 2
  /\ ret.list.items[1].value # ret.list.items[2].value
  /\ ret.list.items[1].description # ret.list.items[1].label

----------------------------------------------------------------------------
(* Datasource, plugin and stream scopes: getChannelSupport claims *)

\* a direct getChannelSupport on a scope of kind sc has just settled
GetReturned(sc) == scope = sc /\ ret.op = "getChannelSupport"

\* C4: datasource scope: getChannelSupport returns the instance's own
\* channelSupport when the resolver finds an instance exposing one, a default
\* measurements support when the instance exposes none, and fails with the
\* resolver's own error, returning nothing, when the resolver finds no instance.
C4_DsGetChannelSupport ==
  GetReturned("ds") =>
    /\ ret.answer = "support" => ret.res = Resolved(OwnSupport(ret.ns))
    /\ ret.answer = "plain" =>
         /\ ret.res.ok
         /\ ret.res.value.class = "LiveMeasurementsSupport"
         /\ ret.res.error = NoError
    /\ ret.answer = "rejects" =>
         /\ ~ret.res.ok
         /\ ret.res.value = Undefined
         /\ ret.res.error = CollabError(ret.ns)

\* the resolver found an instance without channelSupport and the default came back,
\* while the resolver fails for the other name
C4_Witness ==
  /\ GetReturned("ds")
  /\ ret.answer = "plain"
  /\ ret.res.ok
  /\ \E n \in Namespaces : collab[n] = "rejects"

\* C5: plugin scope: getChannelSupport fails with 'Unknown streaming plugin: ns'
\* exactly when the loader yields no plugin, fails with the distinct error
\* 'Plugin does not support streaming: ns' when the plugin loads without a
\* channelSupport, and returns the plugin's channelSupport otherwise.
C5_PluginGetChannelSupport ==
  GetReturned("plugin") =>
    /\ (ret.res.error = ScopeError("Unknown streaming plugin: " \o ret.ns))
         <=> (ret.answer = "undefined")
    /\ ret.answer = "undefined" => ~ret.res.ok /\ ret.res.value = Undefined
    /\ ret.answer = "plain" =>
         /\ ~ret.res.ok
         /\ ret.res.value = Undefined
         /\ ret.res.error =
              ScopeError("Plugin does not support streaming: " \o ret.ns)
    /\ ret.answer = "support" => ret.res = Resolved(OwnSupport(ret.ns))

\* a plugin that loads without channelSupport was refused as unsupported
C5_Witness ==
  /\ GetReturned("plugin")
  /\ ret.answer = "plain"
  /\ ~ret.res.ok
  /\ ret.res.error.message = "Plugin does not support streaming: " \o ret.ns

\* C9: stream scope: getChannelSupport never fails and returns a non-null
\* default measurements support for every namespace, in every reachable state.
C9_StreamGetChannelSupport ==
  GetReturned("stream") =>
    /\ ret.res.ok
    /\ ret.res.value # Undefined
    /\ ret.res.value.class = "LiveMeasurementsSupport"
    /\ ret.res.error = NoError

\* a stream lookup returned after the names cache had been filled
C9_Witness ==
  /\ GetReturned("stream")
  /\ ret.res.ok
  /\ Truthy(names)

----------------------------------------------------------------------------
(* Datasource and plugin scopes: listNamespaces claims *)

\* the elements of a sequence
Range(s) == {s[i] : i \in DOMAIN s}

\* the entries of a snapshot that pass the live test, in order
LiveEntries(entries) == SelectSeq(entries, LAMBDA e : e.live)

\* the items a finished scan must hold: one per live entry whose resolution
\* succeeded, in the order of the snapshot
RECURSIVE ExpectedItems(_, _, _)
ExpectedItems(lives, outcomes, k) ==
  IF k = 0 THEN <<>>
  ELSE IF outcomes[k]
    THEN Append(ExpectedItems(lives, outcomes, k - 1), DsItem(lives[k]))
    ELSE ExpectedItems(lives, outcomes, k - 1)

\* C6: once a listNamespaces call has completed, every call started later on
\* the same instance returns the identical list (same array, same contents)
\* without scanning again: a call that returns has not scanned if some call
\* had returned before it began, and it returns the very list each of them
\* returned.
C6_LaterCallsHitTheCache ==
  (scope \in {"ds", "plugin"} /\ ret.op = "listNamespaces") =>
    \A l \in ret.call.after : ret.list = l /\ ~ret.call.scanned

\* a listNamespaces call that took the scan path has just returned
ScanReturned == ret.op = "listNamespaces" /\ ret.call.scanned

\* C7: datasource scope: a scan never raises; it resolves every live entry of
\* its snapshot, also those after a failed one, and returns exactly one entry
\* for each live datasource whose resolution succeeded and none for the others.
C7_FailuresAreSkipped ==
  (scope = "ds" /\ ScanReturned) =>
    LET lives == LiveEntries(ret.call.entries)
    IN  /\ ~ret.call.threw
        /\ Len(ret.call.outcomes) = Len(lives)
        /\ ret.call.invoked = [k \in DOMAIN lives |-> lives[k].key]
        /\ ret.list.items = ExpectedItems(lives, ret.call.outcomes, Len(lives))
        /\ names = ret.list

\* a scan of two live datasources returned after the first one failed to
\* resolve, holding the second one only
C7_Witness ==
  /\ scope = "ds"
  /\ ScanReturned
  /\ Len(LiveEntries(ret.call.entries)) = 2
  /\ ret.call.outcomes = <<FALSE, TRUE>>
  /\ ret.list.items = <<DsItem(ret.call.entries[2])>>

\* the frames in which a scan is or was just running
ScanFrames == Range(calls) \cup {ret.call}

\* C8: a definition whose live flag is false in the configuration a scan
\* iterates never gets getChannelSupport invoked for it and never appears in
\* the list being built nor in the list returned; and every list a call
\* returns or the cache holds is the list some scan returned.
C8_NotLiveNeverListed ==
  scope \in {"ds", "plugin"} =>
    /\ \A f \in ScanFrames :
         \A i \in DOMAIN f.entries :
           ~f.entries[i].live =>
             /\ f.entries[i].key \notin Range(f.invoked)
             /\ \A it \in Range(f.acc) \cup Range(f.res.items) :
                  it.label # f.entries[i].name
    /\ \A l \in returned \cup {ret.list} :
         Truthy(l) => l.id \in Done /\ calls[l.id].scanned /\ calls[l.id].res = l
    /\ Truthy(names) => names \in returned

\* a scan over a snapshot holding a non-live definition followed by a live
\* one returned with the live one listed
C8_Witness ==
  /\ scope \in {"ds", "plugin"}
  /\ ScanReturned
  /\ \E i, j \in DOMAIN ret.call.entries :
       /\ ~ret.call.entries[i].live
       /\ ret.call.entries[j].live
       /\ i < j
  /\ Len(ret.list.items) = 1

\* C10: with several listNamespaces calls pending at once, `names` is assigned
\* at most once over the whole execution and every caller gets the same list.
C10_AssignedOnce ==
  scope \in {"ds", "plugin"} =>
    /\ writes <= 1
    /\ Cardinality(returned) <= 1

----------------------------------------------------------------------------
(* Stability of lookups and of the registry state *)

\* two references denote the very same object: equal, and not an object
\* that every evaluation allocates anew
SameObject(a, b) == a = b /\ ~a.isNew /\ ~b.isNew

\* C11: in each of the four scopes, with the collaborators unchanged, two
\* getChannelSupport calls for the same namespace either both fail or both
\* return the very same support object: when a lookup has just returned, a
\* second lookup of the same namespace issued now fails if the first failed,
\* and otherwise returns the identical object.
C11_SameSupportObject ==
  ret.op = "getChannelSupport" =>
    LET first == ret.res
        second == GetChannelSupport(ret.ns)
    IN  \/ ~first.ok /\ ~second.ok
        \/ first.ok /\ second.ok /\ SameObject(first.value, second.value)

\* a scan step in which the awaited getChannelSupport of call c failed
ScanLookupFailed(c) ==
  /\ c \in DOMAIN calls
  /\ calls[c].pc = "awaiting"
  /\ calls'[c] # calls[c]
  /\ LET before == calls[c].outcomes
         after == IF calls'[c].pc = "done" THEN ret'.call.outcomes
                                           ELSE calls'[c].outcomes
     IN  after = Append(before, FALSE)

\* the scans that return in this step
ScansFinishing ==
  {c \in DOMAIN calls' :
     calls'[c].pc = "done" /\ (c \in DOMAIN calls => calls[c].pc = "awaiting")}

\* C12: a getChannelSupport call that fails leaves the registry state as it
\* was, in every scope: a failed direct lookup changes neither the feature
\* map, the namespace list nor the names cache; a failed lookup inside a scan
\* changes the names cache only if the scan returns in that very step, and
\* then to the scan's finished list; and the names cache never changes but to
\* the list of a scan that has just returned.
C12_FailureLeavesStateUnchanged ==
  [][/\ (ret'.op = "getChannelSupport" /\ ~ret'.res.ok) =>
          UNCHANGED <<features, namespaces, names>>
     /\ \A c \in DOMAIN calls :
          ScanLookupFailed(c) =>
            /\ UNCHANGED <<features, namespaces>>
            /\ IF c \in ScansFinishing
                 THEN names' = ret'.list /\ ret'.list = calls'[c].res
                 ELSE names' = names
     /\ names' # names =>
          \E c \in ScansFinishing : names' = calls'[c].res]_vars

\* a scan is suspended after one of its lookups failed, with the names cache
\* still unassigned, and a direct lookup has just failed as well
C12_Witness ==
  /\ scope \in {"ds", "plugin"}
  /\ ret.op = "getChannelSupport"
  /\ ~ret.res.ok
  /\ names = NoList
  /\ \E c \in DOMAIN calls :
       /\ calls[c].pc = "awaiting"
       /\ FALSE \in Range(calls[c].outcomes)
       /\ calls[c].acc = <<>>

\* C13: core scope: in every reachable state the namespace list holds exactly
\* one entry per registered feature: the set of entry values equals the key
\* set of the feature map and no two entries share a value.
C13_OneEntryPerFeature ==
  scope = "grafana" =>
    /\ {namespaces[i].value : i \in DOMAIN namespaces} =
         {n \in Namespaces : features[n] # Undefined}
    /\ \A i, j \in DOMAIN namespaces :
         i # j => namespaces[i].value # namespaces[j].value

\* C14: datasource scope: the list produced by the first scan holds the
\* successfully resolved live datasources in the iteration order of the
\* configuration mapping: the m-th entry belongs to the m-th live
\* definition whose resolution succeeded, and is (label = display name,
\* value = type, description = type).
C14_FirstScanInConfigOrder ==
  (scope = "ds" /\ ScanReturned /\ ret.list.id = 1) =>
    LET lives == LiveEntries(ret.call.entries)
        ok == {k \in DOMAIN lives : ret.call.outcomes[k]}
        items == ret.list.items
    IN  /\ Len(ret.call.outcomes) = Len(lives)
        /\ Len(items) = Cardinality(ok)
        /\ \A k \in ok :
             LET m == Cardinality({h \in ok : h <= k})
             IN  items[m] = [label |-> lives[k].name,
                             value |-> lives[k].type,
                             description |-> lives[k].type]

\* the first scan returned two entries, for a mapping that holds beta before
\* alpha: the list keeps that order
C14_Witness ==
  /\ scope = "ds"
  /\ ScanReturned
  /\ ret.list.id = 1
  /\ Len(ret.call.entries) = 2
  /\ ret.call.entries[1].key = "beta"
  /\ ret.call.entries[2].key = "alpha"
  /\ Len(ret.list.items) = 2
  /\ ret.list.items[1].label = DsName("beta")
  /\ ret.list.items[2].label = DsName("alpha")

\* the environment is as it was when the instance was constructed
Unreconfigured == edits = 0

\* C15: datasource and plugin scopes: every entry returned by listNamespaces
\* is resolvable on the same scope: with the collaborators unchanged,
\* getChannelSupport(entry.value) succeeds for each entry of the list a call
\* has just returned.
C15_ListedEntriesResolve ==
  (scope \in {"ds", "plugin"} /\ ret.op = "listNamespaces" /\ Unreconfigured) =>
    \A i \in DOMAIN ret.list.items :
      GetChannelSupport(ret.list.items[i].value).ok

----------------------------------------------------------------------------
(* GeomapPanel: claims *)

\* initLayers has run on the present map and no invocation is suspended
AllInitLayersCompleted == map.exists /\ inits = <<>> /\ panel.mounts > 0

\* C16: for any interleaving of initLayers invocations (the one started by
\* initMapRef and those triggered by PanelEditExitedEvent), once all of
\* them have completed, the layers on the map are exactly the layers tracked
\* in this.layers: no layer stays on the map untracked.
C16_MapLayersAreTracked ==
  AllInitLayersCompleted => map.layers = Elements(layers)

\* the view config sets a zoom limit: the option is there and not 0
Sets(limit) == TruthyNum(limit)

\* C17: initMapView: when the view config sets minZoom and/or maxZoom, the
\* returned view's minimum zoom equals config.minZoom and its maximum zoom
\* equals config.maxZoom, and setting minZoom alone leaves the maximum zoom
\* of a view of its own at the library's default. The view on the map is
\* the one initMapView returned for the present options.
C17_ZoomLimitsApplied ==
  map.exists =>
    LET cfg == options.view
    IN  /\ Sets(cfg.minZoom) => map.view.minZoom = cfg.minZoom
        /\ Sets(cfg.maxZoom) => map.view.maxZoom = cfg.maxZoom
        /\ (Sets(cfg.minZoom) /\ ~Sets(cfg.maxZoom) /\ ~cfg.shared) =>
             map.view.maxZoom = NoNumber

----------------------------------------------------------------------------
(* prepareGraphableFrames: claims *)

\* how many number fields the loops meet before field j of frame f
NumbersBefore(frames, f, j) ==
  Cardinality({p \in UNION {{<<g, h>> : h \in DOMAIN frames[g].fields} :
                              g \in DOMAIN frames} :
                 /\ frames[p[1]].fields[p[2]].type = "number"
                 /\ (p[1] < f \/ (p[1] = f /\ p[2] < j))})

\* C18: prepareGraphableFrames returns exactly one of {warn, frames}: a
\* warning and no frames precisely when the series is empty or missing, or
\* the first frame has no string field, or the first frame has no number
\* field; otherwise one output frame per input frame and no warning, the
\* number fields of all frames carrying state.seriesIndex 0, 1, 2, ... in
\* iteration order.
C18_WarnOrFrames ==
  result.called =>
    LET in == series.frames
        out == result.frames
        unfit == \/ ~series.given
                 \/ Len(in) = 0
                 \/ \A i \in DOMAIN in[1].fields : in[1].fields[i].type # "string"
                 \/ \A i \in DOMAIN in[1].fields : in[1].fields[i].type # "number"
    IN  /\ result.hasWarn # result.hasFrames
        /\ result.hasWarn <=> unfit
        /\ result.hasWarn => result.warn # "" /\ out = <<>>
        /\ result.hasFrames =>
             /\ result.warn = ""
             /\ Len(out) = Len(in)
             /\ \A f \in DOMAIN out :
                  /\ Len(out[f].fields) = Len(in[f].fields)
                  /\ \A j \in DOMAIN out[f].fields :
                       /\ out[f].fields[j].type = in[f].fields[j].type
                       /\ out[f].fields[j].seriesIndex =
                            IF in[f].fields[j].type = "number"
                              THEN Num(NumbersBefore(in, f, j))
                              ELSE NoNumber

\* two frames came back, the number fields of the second one continuing the
\* count of the first
C18_Witness ==
  /\ result.hasFrames
  /\ Len(result.frames) = 2
  /\ Len(result.frames[2].fields) = 2
  /\ result.frames[1].fields[2].seriesIndex = Num(0)
  /\ result.frames[2].fields[1].seriesIndex = Num(1)
  /\ result.frames[2].fields[2].seriesIndex = Num(2)

====
